---- MODULE Spec2Model ----
(***************************************************************************)
(* Model of rink's substance engine (src/src/substance.rs): a Substance is *)
(* an amount (a Number: magnitude and unit) and a BTreeMap of Properties.  *)
(* The operations are Substance::get, Substance::to_reply and the Mul/Div  *)
(* scaling operators.  Number arithmetic lives in number.rs, which is not  *)
(* part of the sources at hand; it is modelled from the Quantity contract  *)
(* of the specification (exact rational magnitudes, additive units).       *)
(***************************************************************************)
EXTENDS Integers, Sequences, FiniteSets, TLC

VARIABLES sub, call, ret

vars == <<sub, call, ret>>

(***************************************************************************)
(* Bounds of the model.                                                    *)
(***************************************************************************)
\* magnitudes of the constructed quantities range over 0 .. MaxMag
MaxMag == 2

(***************************************************************************)
(* Rational magnitudes <<numerator, denominator>>, kept in lowest terms    *)
(* with a positive denominator.                                            *)
(***************************************************************************)
Abs(n) == IF n < 0 THEN -n ELSE n

RECURSIVE Gcd(_, _)
Gcd(a, b) == IF b = 0 THEN a ELSE Gcd(b, a % b)

Norm(n, d) ==
    LET g == Gcd(Abs(n), Abs(d))
        s == IF d < 0 THEN -1 ELSE 1
    IN  <<(s * n) \div g, (s * d) \div g>>

Rat(n) == <<n, 1>>

RatIsZero(a) == a[1] = 0

RatMul(a, b) == Norm(a[1] * b[1], a[2] * b[2])

\* defined for a non-zero b only
RatDiv(a, b) == Norm(a[1] * b[2], a[2] * b[1])

(***************************************************************************)
(* Units: the exponent of every base unit; an exponent of 0 is an absent   *)
(* entry of the unit map, so the map's len() counts the non-zero ones.     *)
(***************************************************************************)
BaseUnits == {"g", "s"}

NoUnit == [b \in BaseUnits |-> 0]

BaseUnit(u) == [b \in BaseUnits |-> IF b = u THEN 1 ELSE 0]

UnitLen(unit) == Cardinality({b \in BaseUnits : unit[b] # 0})

(***************************************************************************)
(* Number(mag, unit) and its fallible arithmetic (Option<Number>).         *)
(***************************************************************************)
Number(mag, unit) == [mag |-> mag, unit |-> unit]

None == [some |-> FALSE]

Some(v) == [some |-> TRUE, v |-> v]

\* &a * &b: always Some; the units add
NumMul(a, b) ==
    Some(Number(RatMul(a.mag, b.mag),
                [u \in BaseUnits |-> a.unit[u] + b.unit[u]]))

\* &a / &b: None iff the magnitude of b is zero; the units subtract
NumDiv(a, b) ==
    IF RatIsZero(b.mag)
    THEN None
    ELSE Some(Number(RatDiv(a.mag, b.mag),
                     [u \in BaseUnits |-> a.unit[u] - b.unit[u]]))

\* amount.1.len() == 0
Dimensionless(n) == UnitLen(n.unit) = 0

(***************************************************************************)
(* Strings.  Property keys are ordered as Rust orders String: byte-wise    *)
(* lexicographically, a proper prefix before its extensions.               *)
(***************************************************************************)
Bytes(s) ==
    CASE s = "d"      -> <<100>>
      [] s = "dh"     -> <<100, 104>>
      [] s = "h"      -> <<104>>
      [] s = "m"      -> <<109>>
      [] s = "v"      -> <<118>>
      [] s = "w"      -> <<119>>
      [] s = "mass"   -> <<109, 97, 115, 115>>
      [] s = "amount" -> <<97, 109, 111, 117, 110, 116>>

RECURSIVE LexLess(_, _)
LexLess(a, b) ==
    IF a = <<>> THEN b # <<>>
    ELSE IF b = <<>> THEN FALSE
    ELSE IF Head(a) # Head(b) THEN Head(a) < Head(b)
    ELSE LexLess(Tail(a), Tail(b))

StrLess(a, b) == LexLess(Bytes(a), Bytes(b))

\* the keys of a BTreeMap<String, Property> in iteration order
RECURSIVE SortedSeq(_)
SortedSeq(keys) ==
    IF keys = {} THEN <<>>
    ELSE LET k == CHOOSE x \in keys : \A y \in keys \ {x} : StrLess(x, y)
         IN  <<k>> \o SortedSeq(keys \ {k})

SortedKeys(properties) == SortedSeq(DOMAIN properties)

(***************************************************************************)
(* The renderer (Context): Number::show and Number::to_parts.              *)
(***************************************************************************)
\* the display-quantity label the context knows for a unit, if any
QuantityOf(unit) ==
    IF unit = BaseUnit("g") THEN Some("mass") ELSE None

ToParts(n) == [value |-> n.mag, unit |-> n.unit, quantity |-> QuantityOf(n.unit)]

Show(n) == <<n.mag, n.unit>>

(***************************************************************************)
(* Results.                                                                *)
(***************************************************************************)
Ok(v) == [tag |-> "Ok", val |-> v]

\* Err(String) of to_reply and of the scaling operators
Err(msg) == [tag |-> "Err", msg |-> msg]

\* SubstanceGetError::Generic(String)
Generic(msg) == [tag |-> "Generic", msg |-> msg]

\* SubstanceGetError::Conformance(Number, Number)
Conformance(a, b) == [tag |-> "Conformance", a |-> a, b |-> b]

\* the call does not return: Option::expect on None aborts it
Panic(msg) == [tag |-> "Panic", msg |-> msg]

\* format!(fmt, args...) and literal messages: the template and its arguments
Format(fmt, args) == [fmt |-> fmt, args |-> args]

NoSuchProperty(name) == Generic(Format("No such property {}", <<name>>))

DivisionByZero == Generic(Format("Division by zero", <<>>))

DivisionByZeroOf(a, b) ==
    Err(Format("Division by zero: <{}> / <{}>", <<Show(a), Show(b)>>))

(***************************************************************************)
(* Substance::get                                                          *)
(***************************************************************************)
\* definitional mode: the name is a key of the property map
GetDefinitional(s, name) ==
    IF name \notin DOMAIN s.properties
    THEN NoSuchProperty(name)
    ELSE LET prop == s.properties[name]
             prod == NumMul(s.amount, prop.input).v
             quot == NumDiv(prod, prop.output)
         IN  IF quot.some THEN Ok(quot.v) ELSE Panic(Format("Non-zero property", <<>>))

\* mutant of GetByOutputName: the second division with its operands exchanged
GetByOutputName_Inverse(s, prop) ==
    LET input == NumDiv(prop.input, s.amount)
    IN  IF ~input.some THEN DivisionByZero
        ELSE IF Dimensionless(input.v)
        THEN LET res == NumDiv(input.v, prop.output)
             IN  IF res.some THEN Ok(res.v) ELSE DivisionByZero
        ELSE Conformance(s.amount, prop.input)

\* the arm taken when name == prop.output_name
GetByOutputName(s, prop) ==
    LET input == NumDiv(prop.input, s.amount)
    IN  IF ~input.some THEN DivisionByZero
        ELSE IF Dimensionless(input.v)
        THEN LET res == NumDiv(prop.output, input.v)
             IN  IF res.some THEN Ok(res.v) ELSE DivisionByZero
        ELSE Conformance(s.amount, prop.input)

\* mutant of GetByInputName: the Conformance error copied from the other arm
GetByInputName_CopiedError(s, prop) ==
    LET output == NumDiv(prop.output, s.amount)
    IN  IF ~output.some THEN DivisionByZero
        ELSE IF Dimensionless(output.v)
        THEN LET res == NumDiv(prop.input, output.v)
             IN  IF res.some THEN Ok(res.v) ELSE DivisionByZero
        ELSE Conformance(s.amount, prop.input)

\* the arm taken when name == prop.input_name
GetByInputName(s, prop) ==
    LET output == NumDiv(prop.output, s.amount)
    IN  IF ~output.some THEN DivisionByZero
        ELSE IF Dimensionless(output.v)
        THEN LET res == NumDiv(prop.input, output.v)
             IN  IF res.some THEN Ok(res.v) ELSE DivisionByZero
        ELSE Conformance(s.amount, prop.output)

\* mutant of GetScan: the loop does not stop at a match, the last match wins
RECURSIVE GetScan_LastMatch(_, _, _, _)
GetScan_LastMatch(s, name, keys, i) ==
    IF i > Len(keys) THEN NoSuchProperty(name)
    ELSE LET prop == s.properties[keys[i]]
             rest == GetScan_LastMatch(s, name, keys, i + 1)
         IN  IF rest # NoSuchProperty(name) THEN rest
             ELSE IF name = prop.output_name THEN GetByOutputName(s, prop)
             ELSE IF name = prop.input_name THEN GetByInputName(s, prop)
             ELSE rest

\* instance mode: the loop over the properties, from the i-th key on
RECURSIVE GetScan(_, _, _, _)
GetScan(s, name, keys, i) ==
    IF i > Len(keys) THEN NoSuchProperty(name)
    ELSE LET prop == s.properties[keys[i]]
         IN  IF name = prop.output_name THEN GetByOutputName(s, prop)
             ELSE IF name = prop.input_name THEN GetByInputName(s, prop)
             ELSE GetScan(s, name, keys, i + 1)

\* mutant of GetInstance: a key of the map is accepted as a name as well
GetInstance_ByKeyToo(s, name) ==
    IF name \in DOMAIN s.properties
    THEN GetByOutputName(s, s.properties[name])
    ELSE GetScan(s, name, SortedKeys(s.properties), 1)

GetInstance(s, name) == GetScan(s, name, SortedKeys(s.properties), 1)

SubstanceGet(s, name) ==
    IF Dimensionless(s.amount)
    THEN GetDefinitional(s, name)
    ELSE GetInstance(s, name)

(***************************************************************************)
(* Substance::to_reply                                                     *)
(***************************************************************************)
PropertyReply(name, input, output, doc) ==
    [name |-> name, input |-> input, output |-> output, doc |-> doc]

\* mutant of DefinitionalRecord: the record is named by output_name, not the key
DefinitionalRecord_NamedByOutput(s, k) ==
    LET v == s.properties[k]
    IN  IF Dimensionless(v.input)
        THEN LET res  == NumMul(v.output, s.amount).v
                 quot == NumDiv(res, v.input)
             IN  IF quot.some
                 THEN Ok(PropertyReply(v.output_name, None, ToParts(quot.v), v.doc))
                 ELSE DivisionByZeroOf(res, v.input)
        ELSE Ok(PropertyReply(v.output_name, Some(ToParts(v.input)),
                              ToParts(v.output), v.doc))

\* mutant of DefinitionalRecord: the output is not multiplied by the amount
DefinitionalRecord_Unscaled(s, k) ==
    LET v == s.properties[k]
    IN  IF Dimensionless(v.input)
        THEN LET res  == v.output
                 quot == NumDiv(res, v.input)
             IN  IF quot.some
                 THEN Ok(PropertyReply(k, None, ToParts(quot.v), v.doc))
                 ELSE DivisionByZeroOf(res, v.input)
        ELSE Ok(PropertyReply(k, Some(ToParts(v.input)), ToParts(v.output), v.doc))

\* definitional mode: the closure mapped over (k, v)
DefinitionalRecord(s, k) ==
    LET v == s.properties[k]
    IN  IF Dimensionless(v.input)
        THEN LET res  == NumMul(v.output, s.amount).v
                 quot == NumDiv(res, v.input)
             IN  IF quot.some
                 THEN Ok(PropertyReply(k, None, ToParts(quot.v), v.doc))
                 ELSE DivisionByZeroOf(res, v.input)
        ELSE Ok(PropertyReply(k, Some(ToParts(v.input)), ToParts(v.output), v.doc))

\* mutant of InstanceRecord: both arms name the record by input_name
InstanceRecord_InputNamed(s, k) ==
    LET v      == s.properties[k]
        input  == NumDiv(v.input, s.amount)
        output == NumDiv(v.output, s.amount)
    IN  IF ~input.some THEN DivisionByZeroOf(v.input, s.amount)
        ELSE IF ~output.some THEN DivisionByZeroOf(v.output, s.amount)
        ELSE IF Dimensionless(input.v)
        THEN LET div == NumDiv(v.output, input.v)
             IN  IF div.some
                 THEN Ok(Some(PropertyReply(v.input_name, None, ToParts(div.v), v.doc)))
                 ELSE DivisionByZeroOf(v.output, input.v)
        ELSE IF Dimensionless(output.v)
        THEN LET div == NumDiv(v.input, output.v)
             IN  IF div.some
                 THEN Ok(Some(PropertyReply(v.input_name, None, ToParts(div.v), v.doc)))
                 ELSE DivisionByZeroOf(v.input, output.v)
        ELSE Ok(None)

\* mutant of InstanceRecord: a property neither side of which conforms is an error
InstanceRecord_Strict(s, k) ==
    LET v      == s.properties[k]
        input  == NumDiv(v.input, s.amount)
        output == NumDiv(v.output, s.amount)
    IN  IF ~input.some THEN DivisionByZeroOf(v.input, s.amount)
        ELSE IF ~output.some THEN DivisionByZeroOf(v.output, s.amount)
        ELSE IF Dimensionless(input.v)
        THEN LET div == NumDiv(v.output, input.v)
             IN  IF div.some
                 THEN Ok(Some(PropertyReply(v.output_name, None, ToParts(div.v), v.doc)))
                 ELSE DivisionByZeroOf(v.output, input.v)
        ELSE IF Dimensionless(output.v)
        THEN LET div == NumDiv(v.input, output.v)
             IN  IF div.some
                 THEN Ok(Some(PropertyReply(v.input_name, None, ToParts(div.v), v.doc)))
                 ELSE DivisionByZeroOf(v.input, output.v)
        ELSE Err(Format("Conformance error: <{}> <{}>", <<Show(s.amount), Show(v.input)>>))

\* instance mode: func, giving Ok(Some(record)), Ok(None) or Err
InstanceRecord(s, k) ==
    LET v      == s.properties[k]
        input  == NumDiv(v.input, s.amount)
        output == NumDiv(v.output, s.amount)
    IN  IF ~input.some THEN DivisionByZeroOf(v.input, s.amount)
        ELSE IF ~output.some THEN DivisionByZeroOf(v.output, s.amount)
        ELSE IF Dimensionless(input.v)
        THEN LET div == NumDiv(v.output, input.v)
             IN  IF div.some
                 THEN Ok(Some(PropertyReply(v.output_name, None, ToParts(div.v), v.doc)))
                 ELSE DivisionByZeroOf(v.output, input.v)
        ELSE IF Dimensionless(output.v)
        THEN LET div == NumDiv(v.input, output.v)
             IN  IF div.some
                 THEN Ok(Some(PropertyReply(v.input_name, None, ToParts(div.v), v.doc)))
                 ELSE DivisionByZeroOf(v.input, output.v)
        ELSE Ok(None)

\* the synthetic record of the amount itself
AmountRecord(s) ==
    LET parts == ToParts(s.amount)
    IN  PropertyReply(IF parts.quantity.some THEN parts.quantity.v ELSE "amount",
                      None, parts, None)

\* collect::<Result<Vec<_>, String>>(): the items in order, or the first Err
RECURSIVE CollectDefinitional(_, _, _)
CollectDefinitional(s, keys, i) ==
    IF i > Len(keys) THEN Ok(<<>>)
    ELSE LET r == DefinitionalRecord(s, keys[i])
         IN  IF r.tag = "Err" THEN r
             ELSE LET rest == CollectDefinitional(s, keys, i + 1)
                  IN  IF rest.tag = "Err" THEN rest
                      ELSE Ok(<<r.val>> \o rest.val)

RECURSIVE CollectInstance(_, _, _)
CollectInstance(s, keys, i) ==
    IF i > Len(keys) THEN Ok(<<>>)
    ELSE LET r == InstanceRecord(s, keys[i])
         IN  IF r.tag = "Err" THEN r
             ELSE LET rest == CollectInstance(s, keys, i + 1)
                  IN  IF rest.tag = "Err" THEN rest
                      ELSE Ok(<<r.val>> \o rest.val)

\* into_iter().filter_map(|x| x).collect()
RECURSIVE FilterMap(_)
FilterMap(opts) ==
    IF opts = <<>> THEN <<>>
    ELSE IF Head(opts).some
    THEN <<Head(opts).v>> \o FilterMap(Tail(opts))
    ELSE FilterMap(Tail(opts))

ToReplyDefinitional(s) == CollectDefinitional(s, SortedKeys(s.properties), 1)

ToReplyInstance(s) ==
    LET all == CollectInstance(s, SortedKeys(s.properties), 1)
    IN  IF all.tag = "Err" THEN all
        ELSE Ok(FilterMap(<<Some(AmountRecord(s))>> \o all.val))

SubstanceToReply(s) ==
    IF Dimensionless(s.amount)
    THEN ToReplyDefinitional(s)
    ELSE ToReplyInstance(s)

(***************************************************************************)
(* Scaling: &Substance * &Number and &Substance / &Number                  *)
(***************************************************************************)
Substance(amount, properties) == [amount |-> amount, properties |-> properties]

SubstanceMul(s, other) ==
    LET amount == NumMul(s.amount, other)
    IN  IF amount.some
        THEN Ok(Substance(amount.v, s.properties))
        ELSE Err(Format("Multiplication of numbers should not fail", <<>>))

\* mutant of SubstanceDiv: the operands of the division exchanged
SubstanceDiv_Exchanged(s, other) ==
    LET amount == NumDiv(other, s.amount)
    IN  IF amount.some
        THEN Ok([amount |-> amount.v, properties |-> s.properties])
        ELSE Err(Format("Division by zero", <<>>))

SubstanceDiv(s, other) ==
    LET amount == NumDiv(s.amount, other)
    IN  IF amount.some
        THEN Ok(Substance(amount.v, s.properties))
        ELSE Err(Format("Division by zero", <<>>))

(***************************************************************************)
(* The substances the definitions loader may construct, and the inputs of  *)
(* the calls.                                                              *)
(***************************************************************************)
Units == {NoUnit, BaseUnit("g"), BaseUnit("s")}

Numbers == {Number(Rat(n), u) : n \in 0 .. MaxMag, u \in Units}

\* the operands of the scaling operators
Scalars == {Number(Rat(n), u) : n \in 0 .. MaxMag, u \in {NoUnit, BaseUnit("g")}}

Keys == {"d", "dh", "m"}

Docs == {None, Some("doc")}

Tables(keySets, properties) == UNION {[ks -> properties] : ks \in keySets}

\* one property, over every number
SingleProperties ==
    [input : Numbers, input_name : {"m"}, output : Numbers,
     output_name : {"m", "v"}, doc : Docs]

SingleSubstances ==
    {Substance(a, f) : a \in Numbers,
                       f \in Tables({{k} : k \in Keys}, SingleProperties)}

\* two properties, over the zero and the largest magnitude, without doc
PairNumbers ==
    {Number(Rat(n), u) : n \in {0, MaxMag}, u \in {NoUnit, BaseUnit("g")}}

PairNames ==
    {[input_name |-> "m", output_name |-> "v"],
     [input_name |-> "v", output_name |-> "m"],
     [input_name |-> "d", output_name |-> "w"]}

PairProperties ==
    {[input |-> i, input_name |-> n.input_name, output |-> o,
      output_name |-> n.output_name, doc |-> d] :
        i \in PairNumbers, o \in PairNumbers, n \in PairNames, d \in {None}}

PairAmounts ==
    {Number(Rat(MaxMag), NoUnit), Number(Rat(MaxMag), BaseUnit("g")),
     Number(Rat(0), BaseUnit("g"))}

PairSubstances ==
    {Substance(a, f) : a \in PairAmounts,
                       f \in Tables({ks \in SUBSET Keys : Cardinality(ks) = 2},
                                    PairProperties)}

EmptySubstances == {Substance(a, f) : a \in Numbers, f \in Tables({{}}, SingleProperties)}

Substances == EmptySubstances \cup SingleSubstances \cup PairSubstances

QueryNames == Keys \cup {"v", "w", "mass"}

(***************************************************************************)
(* The state machine: a constructed substance and the calls made on it.    *)
(***************************************************************************)
Idle == [op |-> "none"]

NoResult == [tag |-> "None"]

Init ==
    /\ sub \in Substances
    /\ call = Idle
    /\ ret = NoResult

\* substance.get(name)
Get(name) ==
    /\ call = Idle
    /\ call' = [op |-> "get", name |-> name]
    /\ ret' = SubstanceGet(sub, name)
    /\ UNCHANGED sub

\* substance.to_reply(context)
ToReply ==
    /\ call = Idle
    /\ call' = [op |-> "to_reply"]
    /\ ret' = SubstanceToReply(sub)
    /\ UNCHANGED sub

\* &substance * &other
Mul(other) ==
    /\ call = Idle
    /\ call' = [op |-> "mul", other |-> other]
    /\ ret' = SubstanceMul(sub, other)
    /\ UNCHANGED sub

\* &substance / &other
Div(other) ==
    /\ call = Idle
    /\ call' = [op |-> "div", other |-> other]
    /\ ret' = SubstanceDiv(sub, other)
    /\ UNCHANGED sub

\* the caller is done with the returned value; the next call may follow
Return ==
    /\ call # Idle
    /\ call' = Idle
    /\ ret' = NoResult
    /\ UNCHANGED sub

Next ==
    \/ \E name \in QueryNames : Get(name)
    \/ ToReply
    \/ \E other \in Scalars : Mul(other)
    \/ \E other \in Scalars : Div(other)
    \/ Return

Spec == Init /\ [][Next]_vars

(***************************************************************************)
(* Vocabulary of the properties checked below.                             *)
(***************************************************************************)
InstanceMode == ~Dimensionless(sub.amount)

DefinitionalMode == Dimensionless(sub.amount)

\* the keys whose property carries the name on either side
MatchingKeys(name) ==
    {k \in DOMAIN sub.properties :
        name \in {sub.properties[k].output_name, sub.properties[k].input_name}}

\* the least of a non-empty set of keys
LeastKey(ks) == CHOOSE k \in ks : \A other \in ks : k = other \/ StrLess(k, other)

\* sub with only the properties under the given keys
Restricted(ks) == Substance(sub.amount, [k \in ks |-> sub.properties[k]])

\* a and b have the same unit: a / b is dimensionless
Conformant(a, b) == a.unit = b.unit

PanickingGet ==
    /\ call.op = "get"
    /\ DefinitionalMode
    /\ call.name \in DOMAIN sub.properties
    /\ RatIsZero(sub.properties[call.name].output.mag)

(***************************************************************************)
(* C1: get and to_reply never abort: whatever the substance, its property  *)
(* table and the queried name, the call ends in a returned value or a      *)
(* returned error, also when a divisor has magnitude zero (definitional    *)
(* get of a property whose output is zero included).                       *)
(***************************************************************************)
C1_NeverAborts ==
    call.op \in {"get", "to_reply"} =>
        /\ ret.tag \in {"Ok", "Generic", "Conformance", "Err"}
        /\ PanickingGet => ret.tag = "Generic"

(***************************************************************************)
(* C2 as stated: in instance mode get, resolved through output_name, is    *)
(* Generic("Division by zero") if step1 = input / amount is undefined,     *)
(* Conformance(amount, input) if step1 is not dimensionless, and the value *)
(* output / step1 otherwise; through input_name, the same with input and   *)
(* output swapped.                                                         *)
(***************************************************************************)
C2_Stated(this, that) ==
    LET step1 == NumDiv(this, sub.amount)
    IN  IF ~step1.some THEN ret = DivisionByZero
        ELSE IF ~Dimensionless(step1.v) THEN ret = Conformance(sub.amount, this)
        ELSE /\ ret.tag = "Ok"
             /\ NumDiv(that, step1.v).some
             /\ ret.val = NumDiv(that, step1.v).v

C2_Original ==
    (call.op = "get" /\ InstanceMode /\ MatchingKeys(call.name) # {}) =>
        LET prop == sub.properties[LeastKey(MatchingKeys(call.name))]
        IN  IF call.name = prop.output_name
            THEN C2_Stated(prop.input, prop.output)
            ELSE C2_Stated(prop.output, prop.input)

(***************************************************************************)
(* C2 amended: as stated, except that when step1 is dimensionless and has  *)
(* magnitude zero the second division is undefined and the result is       *)
(* Generic("Division by zero"); otherwise it is the value output / step1   *)
(* (input / step1 through input_name).                                     *)
(***************************************************************************)
C2_Amended(this, that) ==
    IF RatIsZero(sub.amount.mag) THEN ret = DivisionByZero
    ELSE IF ~Conformant(this, sub.amount) THEN ret = Conformance(sub.amount, this)
    ELSE IF RatIsZero(this.mag) THEN ret = DivisionByZero
    ELSE ret = Ok(Number(RatDiv(that.mag, RatDiv(this.mag, sub.amount.mag)),
                         that.unit))

C2_InstanceGet ==
    (call.op = "get" /\ InstanceMode /\ MatchingKeys(call.name) # {}) =>
        LET prop == sub.properties[LeastKey(MatchingKeys(call.name))]
        IN  IF call.name = prop.output_name
            THEN C2_Amended(prop.input, prop.output)
            ELSE C2_Amended(prop.output, prop.input)

\* a value derived through input_name, from magnitudes that do not cancel
C2_Witness ==
    /\ call.op = "get" /\ InstanceMode /\ MatchingKeys(call.name) # {}
    /\ LET prop == sub.properties[LeastKey(MatchingKeys(call.name))]
       IN  /\ call.name # prop.output_name
           /\ call.name = prop.input_name
           /\ ret.tag = "Ok"
           /\ ret.val.mag \notin {prop.input.mag, prop.output.mag}

(***************************************************************************)
(* C3: in instance mode the result of get(name) is that of the first       *)
(* property, in lexicographic key order, carrying the name on either side: *)
(* it is the result get gives on the substance holding that property       *)
(* alone, whatever the later matching properties would have given.         *)
(***************************************************************************)
C3_FirstMatchWins ==
    (call.op = "get" /\ InstanceMode /\ MatchingKeys(call.name) # {}) =>
        LET first == LeastKey(MatchingKeys(call.name))
        IN  ret = SubstanceGet(Restricted({first}), call.name)

\* the first match fails where a later match alone gives a value
C3_Witness ==
    /\ call.op = "get" /\ InstanceMode
    /\ ret.tag \in {"Generic", "Conformance"}
    /\ \E later \in MatchingKeys(call.name) :
          /\ later # LeastKey(MatchingKeys(call.name))
          /\ SubstanceGet(Restricted({later}), call.name).tag = "Ok"

(***************************************************************************)
(* C4: get returns Generic("No such property <name>") exactly when the     *)
(* name matches no property: in definitional mode when it is no key of     *)
(* the property map, in instance mode when it is no property's             *)
(* output_name or input_name (the amount label is no match either).        *)
(***************************************************************************)
C4_NoSuchProperty ==
    call.op = "get" =>
        LET matches == IF DefinitionalMode
                       THEN call.name \in DOMAIN sub.properties
                       ELSE MatchingKeys(call.name) # {}
        IN  (ret = Generic(Format("No such property {}", <<call.name>>))) <=> ~matches

\* in instance mode a key of the map that is no property's name is no match
C4_Witness ==
    /\ call.op = "get" /\ InstanceMode
    /\ call.name \in DOMAIN sub.properties
    /\ ret = Generic(Format("No such property {}", <<call.name>>))

KeysByRank ==
    [i \in 1 .. Cardinality(DOMAIN sub.properties) |->
        CHOOSE k \in DOMAIN sub.properties :
            Cardinality({j \in DOMAIN sub.properties : StrLess(j, k)}) = i - 1]

RECURSIVE ExpectedNames(_)
ExpectedNames(keys) ==
    IF keys = <<>> THEN <<>>
    ELSE LET v == sub.properties[Head(keys)]
         IN  (IF Conformant(v.input, sub.amount) THEN <<v.output_name>>
              ELSE IF Conformant(v.output, sub.amount) THEN <<v.input_name>>
              ELSE <<>>) \o ExpectedNames(Tail(keys))

C6_InstanceReply ==
    (call.op = "to_reply" /\ InstanceMode /\ ret.tag = "Ok") =>
        /\ Len(ret.val) >= 1
        /\ ret.val[1].name = (IF ToParts(sub.amount).quantity.some
                              THEN ToParts(sub.amount).quantity.v ELSE "amount")
        /\ ret.val[1].input = None
        /\ ret.val[1].output = ToParts(sub.amount)
        /\ [i \in 1 .. Len(ret.val) - 1 |-> ret.val[i + 1].name]
              = ExpectedNames(KeysByRank)

\* of two properties one is dropped and the other is named by its input_name
C6_Witness ==
    /\ call.op = "to_reply" /\ InstanceMode /\ ret.tag = "Ok"
    /\ Cardinality(DOMAIN sub.properties) = 2
    /\ Len(ret.val) = 2
    /\ \E k \in DOMAIN sub.properties :
          /\ ret.val[2].name = sub.properties[k].input_name
          /\ ret.val[2].name # sub.properties[k].output_name
          /\ k = KeysByRank[2]

(***************************************************************************)
(* C7: in instance mode with both divisions by the amount defined, a       *)
(* property neither side of which conforms to the amount is left out of    *)
(* to_reply without making it fail (the reply is the one of the substance  *)
(* without that property), whereas get resolving to such a property        *)
(* reports Conformance.                                                    *)
(***************************************************************************)
NeitherConforms(k) ==
    /\ ~Conformant(sub.properties[k].input, sub.amount)
    /\ ~Conformant(sub.properties[k].output, sub.amount)

C7_Asymmetry ==
    (InstanceMode /\ ~RatIsZero(sub.amount.mag)) =>
        /\ call.op = "to_reply" =>
              \A k \in DOMAIN sub.properties :
                  NeitherConforms(k) =>
                      ret = SubstanceToReply(Restricted(DOMAIN sub.properties \ {k}))
        /\ (call.op = "get" /\ MatchingKeys(call.name) # {}) =>
              LET k == LeastKey(MatchingKeys(call.name))
              IN  NeitherConforms(k) =>
                      /\ ret.tag = "Conformance"
                      /\ ret.a = sub.amount
                      /\ ret.b \in {sub.properties[k].input, sub.properties[k].output}

\* get reports Conformance for a property the reply of the same substance omits
C7_Witness ==
    /\ call.op = "get" /\ InstanceMode /\ ret.tag = "Conformance"
    /\ NeitherConforms(LeastKey(MatchingKeys(call.name)))
    /\ Cardinality(DOMAIN sub.properties) = 2
    /\ SubstanceToReply(sub).tag = "Ok"
    /\ Len(SubstanceToReply(sub).val) = 2

(***************************************************************************)
(* C8: substance / q1 fails with the message "Division by zero" when the   *)
(* magnitude of q1 is zero; otherwise it succeeds and (substance / q1) *   *)
(* q1 succeeds with the amount (magnitude and unit) and the property table *)
(* of the original; no call changes the operand substance.                 *)
(***************************************************************************)
C8_DivResult ==
    call.op = "div" =>
        IF RatIsZero(call.other.mag)
        THEN ret = Err(Format("Division by zero", <<>>))
        ELSE /\ ret.tag = "Ok"
             /\ ret.val.properties = sub.properties
             /\ LET back == SubstanceMul(ret.val, call.other)
                IN  /\ back.tag = "Ok"
                    /\ back.val.amount = sub.amount
                    /\ back.val.properties = sub.properties

C8_ScalingRoundTrip == [](C8_DivResult) /\ [][sub' = sub]_vars

\* a quotient whose magnitude is no integer, over a unit the amount lacks
C8_Witness ==
    /\ call.op = "div" /\ ret.tag = "Ok"
    /\ ret.val.amount.mag[2] # 1
    /\ ret.val.amount.unit # sub.amount.unit
    /\ DOMAIN sub.properties # {}

(***************************************************************************)
(* C9 as stated: in definitional mode the record to_reply produces for a   *)
(* property {input: 1 u, output: k v} has the output amount * k (k for the *)
(* amount 1), whether u has a dimension or not; stated here for the        *)
(* non-zero amounts.                                                       *)
(***************************************************************************)
UnitInputKeys == {k \in DOMAIN sub.properties : sub.properties[k].input.mag = Rat(1)}

\* the record of the reply made for the property under key k
RecordOf(k) == ret.val[CHOOSE i \in 1 .. Len(ret.val) : ret.val[i].name = k]

C9_Original ==
    (call.op = "to_reply" /\ DefinitionalMode /\ ret.tag = "Ok"
        /\ ~RatIsZero(sub.amount.mag)) =>
        \A k \in UnitInputKeys :
            RecordOf(k).output.value
                = RatMul(sub.amount.mag, sub.properties[k].output.mag)

(***************************************************************************)
(* C9 amended: the record has the output amount * k v and no input side    *)
(* when the input 1 u is dimensionless; when u has a dimension the record  *)
(* passes input and output through unchanged: its output is k v whatever   *)
(* the amount.                                                             *)
(***************************************************************************)
C9_DefinitionalRoundTrip ==
    (call.op = "to_reply" /\ DefinitionalMode /\ ret.tag = "Ok") =>
        \A k \in UnitInputKeys :
            LET v == sub.properties[k]
            IN  IF v.input.unit = NoUnit
                THEN /\ RecordOf(k).input = None
                     /\ RecordOf(k).output.value = RatMul(sub.amount.mag, v.output.mag)
                     /\ RecordOf(k).output.unit = v.output.unit
                ELSE /\ RecordOf(k).input = Some(ToParts(v.input))
                     /\ RecordOf(k).output.value = v.output.mag
                     /\ RecordOf(k).output.unit = v.output.unit

\* amount 2 and k = 2: the derived record shows 4
C9_Witness ==
    /\ call.op = "to_reply" /\ DefinitionalMode /\ ret.tag = "Ok"
    /\ sub.amount.mag = Rat(2)
    /\ \E k \in UnitInputKeys :
          /\ sub.properties[k].input.unit = NoUnit
          /\ sub.properties[k].output.mag = Rat(2)
          /\ RecordOf(k).output.value = Rat(4)

(***************************************************************************)
(* C10: in instance mode, when all the input_name and output_name strings  *)
(* of the table are pairwise distinct and to_reply succeeds, get of the    *)
(* name of each record after the amount record returns the quantity that   *)
(* record shows as its output.                                             *)
(***************************************************************************)
NamesDistinct ==
    /\ \A k \in DOMAIN sub.properties :
          sub.properties[k].input_name # sub.properties[k].output_name
    /\ \A j, k \in DOMAIN sub.properties :
          j # k => {sub.properties[j].input_name, sub.properties[j].output_name}
                      \cap {sub.properties[k].input_name, sub.properties[k].output_name}
                      = {}

C10_GetAgreesWithReply ==
    (call.op = "to_reply" /\ InstanceMode /\ NamesDistinct /\ ret.tag = "Ok") =>
        \A i \in 2 .. Len(ret.val) :
            LET got == SubstanceGet(sub, ret.val[i].name)
            IN  /\ got.tag = "Ok"
                /\ ToParts(got.val) = ret.val[i].output

\* two records after the amount record, one by output_name and one by input_name
C10_Witness ==
    /\ call.op = "to_reply" /\ InstanceMode /\ NamesDistinct /\ ret.tag = "Ok"
    /\ Len(ret.val) = 3
    /\ \E j, k \in DOMAIN sub.properties :
          /\ ret.val[2].name = sub.properties[j].output_name
          /\ ret.val[3].name = sub.properties[k].input_name

====
